---- MODULE Spec2Model ----
(***************************************************************************)
(* A model of server_worker_sim (src/src/lib.rs): the Coordinator          *)
(* (ServerThread), the Worker (WorkerThread::run), one Task Unit per       *)
(* admitted task (TaskThread::run and its completion callback) and the     *)
(* Listener thread, communicating over mpsc channels.                      *)
(*                                                                         *)
(* Under Spec and FairSpec timeouts are untimed: a recv_timeout may expire *)
(* whenever its channel is empty.  Under TimedSpec time advances in whole  *)
(* seconds and a recv_timeout expires when its duration has passed.        *)
(* Atomics are modelled as immediately visible (one modification order per *)
(* variable).                                                              *)
(***************************************************************************)
EXTENDS Integers, Sequences, FiniteSets, TLC

VARIABLES
    program,          \* the API calls the Coordinator's caller has yet to make
    server,           \* the ServerThread value: "alive", "dropped" or "panicked"
    request_counter,  \* ServerThread.request_counter
    task_id_counter,  \* ServerThread.task_id_counter
    listener_handle,  \* ServerThread.listener_handle is Some
    worker_q,         \* the request channel (worker_tx -> worker_rx)
    worker_pc,        \* the Worker's position in WorkerThread::run
    worker_cur,       \* the CreateTask the Worker is admitting
    task_map,         \* WorkerThread.task_map: the ids holding a Sender
    active_tasks,     \* WorkerThread.active_tasks
    task_pc,          \* each Task Unit's position
    task_q,           \* each task's instruction channel
    task_cur,         \* the instruction a Task Unit is executing
    task,             \* TaskThread.task: query_map and update_map
    result_q,         \* the result channel (result_tx -> result_rx)
    listener_pc,      \* the Listener thread: "run" or "done"
    shutdown_flag,    \* the shared AtomicBool
    results,          \* the result buffer
    issued,           \* history: the API calls made, with the ids they were assigned
    sent,             \* history: the terminal results sent, by req_id
    calls,            \* history: invocations of each task's update closures
    clock             \* the time each thread has spent in its current wait

vars == <<program, server, request_counter, task_id_counter, listener_handle, worker_q,
          worker_pc, worker_cur, task_map, active_tasks, task_pc, task_q,
          task_cur, task, result_q, listener_pc, shutdown_flag, results,
          issued, sent, calls, clock>>

\* ------------------------------------------------------------- constants

MAX_CONCURRENT_TASKS == 4
MAX_REQ_ID == 100

\* Seconds.
TASK_TIMEOUT == 2

\* A Listener that tolerates less silence than an execution may take.
ListenerTimeoutShort == TASK_TIMEOUT - 1

LISTENER_TIMEOUT == 5
WORKER_TIMEOUT == 5

\* assumption 1: a task executes any request in less than TASK_TIMEOUT.
ExecMax == TASK_TIMEOUT - 1

\* Creations a caller attempts beyond the ceiling.
Extra == 1

\* How often a caller repeats the same query or update.
Repeat == 2

\* ----------------------------------------------------------------- data

None == [kind |-> "None"]
NoReq == [type |-> "None"]
NoTask == [query_map |-> <<>>, update_map |-> <<>>]

ReceivedRequest == [kind |-> "ReceivedRequest"]
QueryOk(r, t, v) == [kind |-> "QueryOk", req_id |-> r, id |-> t, value |-> v]
QueryError(r, t, m) == [kind |-> "QueryError", req_id |-> r, id |-> t, value |-> m]
UpdateOk(r, t, v) == [kind |-> "UpdateOk", req_id |-> r, id |-> t, value |-> v]
UpdateError(r, t, m) == [kind |-> "UpdateError", req_id |-> r, id |-> t, value |-> m]
NotFound(r, t, c) == [kind |-> "NotFound", req_id |-> r, id |-> t, value |-> c]
Throttled(r, t) == [kind |-> "Throttled", req_id |-> r, id |-> t, value |-> ""]

\* format!("Query ID '{}' not found", query_id)
QueryMsg(q) ==
    CASE q = "status" -> "Query ID 'status' not found"
      [] q = "get_status" -> "Query ID 'get_status' not found"
      [] OTHER -> "Query ID '?' not found"

\* format!("Update ID '{}' not found", update_id)
UpdateMsg(u) ==
    CASE u = "mark_done" -> "Update ID 'mark_done' not found"
      [] u = "bad_update_id" -> "Update ID 'bad_update_id' not found"
      [] OTHER -> "Update ID '?' not found"

\* An update operation is a boxed FnMut() -> String: a closure with captured
\* state.  "const" is || "done".to_string(); "toggle" flips a captured flag
\* and returns "on" or "off".
ConstFn == [fn |-> "const", st |-> FALSE]
ToggleFn == [fn |-> "toggle", st |-> FALSE]

Invoke(c) ==
    IF c.fn = "const"
    THEN [value |-> "done", next |-> c]
    ELSE [value |-> IF c.st THEN "off" ELSE "on", next |-> [c EXCEPT !.st = ~c.st]]

\* --------------------------------------------------------- the caller

\* The maps callers create tasks from (tests/integration_tests.rs).
Running == [query_map |-> ("status" :> "running"), update_map |-> <<>>]
Idle == [query_map |-> ("get_status" :> "idle"),
         update_map |-> ("mark_done" :> ConstFn)]
Busy == [query_map |-> ("get_status" :> "busy"),
         update_map |-> ("mark_done" :> ToggleFn)]

Create(inp) == [op |-> "create_task", inp |-> inp]
Query(id, q) == [op |-> "query_task", id |-> id, arg |-> q]
Update(id, u) == [op |-> "update_task", id |-> id, arg |-> u]

Times(n, call) == [i \in 1 .. n |-> call]

\* More creations than the ceiling admits, then requests for the first id
\* past the ceiling and for the first task (test_queried_task_w_throttled_tasks).
Throttling ==
    Times(MAX_CONCURRENT_TASKS + Extra, Create(Idle))
        \o <<Query(MAX_CONCURRENT_TASKS, "get_status"), Update(0, "mark_done")>>

\* One task, queried and updated repeatedly, with a missing key and a
\* missing operation (test_complex_task_interactions, on one task).
Interactions ==
    <<Create(Busy)>> \o Times(Repeat, Update(0, "mark_done"))
        \o Times(Repeat, Query(0, "get_status"))
        \o <<Query(0, "nonexistent_key"), Update(0, "bad_update_id")>>

\* Two tasks with different maps, and ids that were never created
\* (test_query_nonexistent_task, test_update_nonexistent_task).
Nonexistent ==
    <<Query(999, "any_key"), Create(Running), Create(Idle), Update(888, "some_update"),
      Query(1, "status"), Update(0, "mark_done"), Query(0, "status"),
      Update(1, "mark_done")>>

Programs == {Throttling, Interactions, Nonexistent}

\* The longest program: no caller makes more than MAX_REQ_ID calls, so every
\* req_id indexes the result buffer as allocated, and no task id exceeds it.
MaxLen ==
    CHOOSE n \in 0 .. MAX_REQ_ID :
       /\ \E p \in Programs : Len(p) = n
       /\ \A p \in Programs : Len(p) <= n
ReqIds == 0 .. (MaxLen - 1)
TaskIds == 0 .. (MaxLen - 1)

\* ----------------------------------------------------------------- time

\* Every wait has just begun.  While clock.on is FALSE time is left out and
\* the timers stay at zero.
Started ==
    [on |-> TRUE, listener |-> 0, worker |-> 0, task |-> [t \in TaskIds |-> 0]]

\* recv_timeout(duration) returns Err(Timeout): the wait has lasted duration.
Expired(waited, duration) == clock.on => waited = duration

\* The thread leaves its wait; its next recv_timeout starts from zero.
RestartListener == [clock EXCEPT !.listener = 0]
RestartWorker == [clock EXCEPT !.worker = 0]
RestartTask(t) == [clock EXCEPT !.task[t] = 0]

\* ---------------------------------------------------------------- Init

Init ==
    /\ program \in Programs
    /\ server = "alive"
    /\ request_counter = 0
    /\ task_id_counter = 0
    /\ listener_handle = TRUE
    /\ worker_q = <<>>
    /\ worker_pc = "check"
    /\ worker_cur = NoReq
    /\ task_map = {}
    /\ active_tasks = 0
    /\ task_pc = [t \in TaskIds |-> "none"]
    /\ task_q = [t \in TaskIds |-> <<>>]
    /\ task_cur = [t \in TaskIds |-> NoReq]
    /\ task = [t \in TaskIds |-> NoTask]
    /\ result_q = <<>>
    /\ listener_pc = "run"
    /\ shutdown_flag = FALSE
    /\ results = [r \in ReqIds |-> None]
    /\ issued = <<>>
    /\ sent = [r \in ReqIds |-> <<>>]
    /\ calls = [t \in TaskIds |-> 0]
    /\ clock = [Started EXCEPT !.on = FALSE]

\* ------------------------------------------------------------- channels

\* worker_tx.send: fails (and the request is dropped) once worker_rx is gone.
WorkerSend(req) == IF worker_pc # "done" THEN Append(worker_q, req) ELSE worker_q

\* result_tx.send: fails once the Listener has dropped result_rx.
ResultSend(res) == IF listener_pc # "done" THEN Append(result_q, res) ELSE result_q

\* tx.send on a task's instruction channel: fails once its TaskThread has
\* returned from run and dropped rx.
TaskSend(t, ins) ==
    IF task_pc[t] \in {"wait", "exec"}
    THEN [task_q EXCEPT ![t] = Append(@, ins)]
    ELSE task_q

\* The terminal results sent so far, with res added under its req_id.
Record(res) == [sent EXCEPT ![res.req_id] = Append(@, res)]

\* Some Sender<TaskResult> still exists: the ServerThread's own, or a clone
\* travelling inside a request or an instruction.
ResultSenders ==
    \/ server = "alive"
    \/ worker_q # <<>>
    \/ worker_cur # NoReq
    \/ \E t \in TaskIds : task_q[t] # <<>> \/ task_cur[t] # NoReq

\* ---------------------------------------------------------- Coordinator

\* A request counter that is advanced before it is read.
NextReqIdPre == [id |-> request_counter + 1, counter |-> request_counter + 1]

\* A request counter that is read and never advanced.
NextReqIdStuck == [id |-> request_counter, counter |-> request_counter]

next_req_id == [id |-> request_counter, counter |-> request_counter + 1]

\* A task counter that is read and never advanced.
NextTaskIdStuck == [id |-> task_id_counter, counter |-> task_id_counter]

next_task_id == [id |-> task_id_counter, counter |-> task_id_counter + 1]

create_task(inp) ==
    /\ server = "alive"
    /\ program' = Tail(program)
    /\ request_counter' = next_req_id.counter
    /\ task_id_counter' = next_task_id.counter
    /\ worker_q' = WorkerSend([type |-> "CreateTask", req_id |-> next_req_id.id,
                               id |-> next_task_id.id,
                               query_map |-> inp.query_map,
                               update_map |-> inp.update_map])
    /\ issued' = Append(issued, [op |-> "create_task", req_id |-> next_req_id.id,
                                  id |-> next_task_id.id, inp |-> inp])
    /\ UNCHANGED <<server, listener_handle, worker_pc, worker_cur, task_map,
                   active_tasks, task_pc, task_q, task_cur, task, result_q,
                   listener_pc, shutdown_flag, results, sent, calls>>
    /\ UNCHANGED clock

query_task(id, query_id) ==
    /\ server = "alive"
    /\ program' = Tail(program)
    /\ request_counter' = next_req_id.counter
    /\ worker_q' = WorkerSend([type |-> "QueryTask", req_id |-> next_req_id.id,
                               id |-> id, query_id |-> query_id])
    /\ issued' = Append(issued, [op |-> "query_task", req_id |-> next_req_id.id,
                                  id |-> id, arg |-> query_id])
    /\ UNCHANGED <<server, task_id_counter, listener_handle, worker_pc,
                   worker_cur, task_map, active_tasks, task_pc, task_q,
                   task_cur, task, result_q, listener_pc, shutdown_flag,
                   results, sent, calls>>
    /\ UNCHANGED clock

\* The send's result is unwrapped: an Err (worker_rx dropped) panics the caller.
update_task(id, update_id) ==
    /\ server = "alive"
    /\ program' = Tail(program)
    /\ request_counter' = next_req_id.counter
    /\ worker_q' = WorkerSend([type |-> "UpdateTask", req_id |-> next_req_id.id,
                               id |-> id, update_id |-> update_id])
    /\ server' = IF worker_pc = "done" THEN "panicked" ELSE server
    /\ issued' = Append(issued, [op |-> "update_task", req_id |-> next_req_id.id,
                                  id |-> id, arg |-> update_id])
    /\ UNCHANGED <<task_id_counter, listener_handle, worker_pc, worker_cur,
                   task_map, active_tasks, task_pc, task_q, task_cur, task,
                   result_q, listener_pc, shutdown_flag, results, sent, calls>>
    /\ UNCHANGED clock

\* handle.join() returns once the Listener thread has ended.
join_listener ==
    /\ server = "alive"
    /\ listener_handle
    /\ listener_pc = "done"
    /\ listener_handle' = FALSE
    /\ UNCHANGED <<program, server, request_counter, task_id_counter, worker_q,
                   worker_pc, worker_cur, task_map, active_tasks, task_pc,
                   task_q, task_cur, task, result_q, listener_pc,
                   shutdown_flag, results, issued, sent, calls>>
    /\ UNCHANGED clock

\* The ServerThread goes out of scope: worker_tx and result_tx are dropped.
DropServer ==
    /\ server = "alive"
    /\ server' = "dropped"
    /\ UNCHANGED <<program, request_counter, task_id_counter, listener_handle, worker_q,
                   worker_pc, worker_cur, task_map, active_tasks, task_pc,
                   task_q, task_cur, task, result_q, listener_pc,
                   shutdown_flag, results, issued, sent, calls>>
    /\ UNCHANGED clock

\* --------------------------------------------------------------- Worker

\* A loop condition that never sees the flag.
WorkerCheckBlind ==
    /\ worker_pc = "check"
    /\ worker_pc' = "recv"
    /\ UNCHANGED <<program, server, request_counter, task_id_counter, listener_handle,
                   worker_q, worker_cur, task_map, active_tasks, task_pc, task_q,
                   task_cur, task, result_q, listener_pc, shutdown_flag,
                   results, issued, sent, calls>>
    /\ clock' = RestartWorker

\* while !shutdown_flag.load(Relaxed): leaving run drops worker_rx and every
\* request still queued in it.
WorkerCheck ==
    /\ worker_pc = "check"
    /\ worker_pc' = IF shutdown_flag THEN "done" ELSE "recv"
    /\ worker_q' = IF shutdown_flag THEN <<>> ELSE worker_q
    /\ UNCHANGED <<program, server, request_counter, task_id_counter, listener_handle,
                   worker_cur, task_map, active_tasks, task_pc, task_q,
                   task_cur, task, result_q, listener_pc, shutdown_flag,
                   results, issued, sent, calls>>
    /\ clock' = RestartWorker

\* recv_timeout returns Err(Timeout): continue.
WorkerTimeout ==
    /\ worker_pc = "recv"
    /\ worker_q = <<>>
    /\ worker_pc' = "check"
    /\ UNCHANGED <<program, server, request_counter, task_id_counter, listener_handle,
                   worker_q, worker_cur, task_map, active_tasks, task_pc,
                   task_q, task_cur, task, result_q, listener_pc,
                   shutdown_flag, results, issued, sent, calls>>
    /\ Expired(clock.worker, WORKER_TIMEOUT)
    /\ clock' = RestartWorker

\* A Worker that leaves its loop when the request channel is disconnected.
WorkerDisconnectedExits ==
    /\ worker_pc = "recv"
    /\ worker_q = <<>>
    /\ server # "alive"
    /\ worker_pc' = "done"
    /\ UNCHANGED <<program, server, request_counter, task_id_counter, listener_handle,
                   worker_q, worker_cur, task_map, active_tasks, task_pc,
                   task_q, task_cur, task, result_q, listener_pc,
                   shutdown_flag, results, issued, sent, calls>>
    /\ clock' = RestartWorker

\* recv_timeout returns Err(Disconnected): continue.
WorkerDisconnected ==
    /\ worker_pc = "recv"
    /\ worker_q = <<>>
    /\ server # "alive"
    /\ worker_pc' = "check"
    /\ UNCHANGED <<program, server, request_counter, task_id_counter, listener_handle,
                   worker_q, worker_cur, task_map, active_tasks, task_pc,
                   task_q, task_cur, task, result_q, listener_pc,
                   shutdown_flag, results, issued, sent, calls>>
    /\ clock' = RestartWorker

\* The admission check, off by one: admits at the ceiling.
AtCeilingOffByOne == active_tasks > MAX_CONCURRENT_TASKS

\* active_tasks.load(Acquire) >= MAX_CONCURRENT_TASKS
AtCeiling == active_tasks >= MAX_CONCURRENT_TASKS

\* A Worker that keeps a throttled request for later admission.
WorkerCreateRequeue ==
    /\ worker_pc = "recv"
    /\ worker_q # <<>>
    /\ Head(worker_q).type = "CreateTask"
    /\ LET msg == Head(worker_q) IN
         IF AtCeiling
         THEN /\ result_q' = ResultSend(Throttled(msg.req_id, msg.id))
              /\ sent' = Record(Throttled(msg.req_id, msg.id))
              /\ worker_q' = Append(Tail(worker_q), msg)
              /\ worker_pc' = "check"
              /\ UNCHANGED worker_cur
         ELSE /\ worker_pc' = "insert"
              /\ worker_cur' = msg
              /\ worker_q' = Tail(worker_q)
              /\ UNCHANGED <<result_q, sent>>
    /\ UNCHANGED <<program, server, request_counter, task_id_counter, listener_handle,
                   task_map, active_tasks, task_pc, task_q, task_cur, task,
                   listener_pc, shutdown_flag, results, issued, calls>>
    /\ clock' = RestartWorker

\* CreateTask received: the admission check, and the Throttled reply.
WorkerCreate ==
    /\ worker_pc = "recv"
    /\ worker_q # <<>>
    /\ Head(worker_q).type = "CreateTask"
    /\ worker_q' = Tail(worker_q)
    /\ LET msg == Head(worker_q) IN
         IF AtCeiling
         THEN /\ result_q' = ResultSend(Throttled(msg.req_id, msg.id))
              /\ sent' = Record(Throttled(msg.req_id, msg.id))
              /\ worker_pc' = "check"
              /\ UNCHANGED worker_cur
         ELSE /\ worker_pc' = "insert"
              /\ worker_cur' = msg
              /\ UNCHANGED <<result_q, sent>>
    /\ UNCHANGED <<program, server, request_counter, task_id_counter, listener_handle,
                   task_map, active_tasks, task_pc, task_q, task_cur, task,
                   listener_pc, shutdown_flag, results, issued, calls>>
    /\ clock' = RestartWorker

\* A Worker that forgets to register the task.
WorkerInsertNone ==
    /\ worker_pc = "insert"
    /\ worker_pc' = "incr"
    /\ UNCHANGED <<program, server, request_counter, task_id_counter, listener_handle,
                   worker_q, worker_cur, task_map, active_tasks, task_pc, task_q,
                   task_cur, task, result_q, listener_pc, shutdown_flag,
                   results, issued, sent, calls>>
    /\ UNCHANGED clock

\* task_map.lock().unwrap().insert(id, task_tx.clone())
WorkerInsert ==
    /\ worker_pc = "insert"
    /\ task_map' = task_map \cup {worker_cur.id}
    /\ worker_pc' = "incr"
    /\ UNCHANGED <<program, server, request_counter, task_id_counter, listener_handle,
                   worker_q, worker_cur, active_tasks, task_pc, task_q,
                   task_cur, task, result_q, listener_pc, shutdown_flag,
                   results, issued, sent, calls>>
    /\ UNCHANGED clock

\* An admission that spawns without counting the task.
WorkerIncrNone ==
    /\ worker_pc = "incr"
    /\ worker_pc' = "spawn"
    /\ UNCHANGED <<program, server, request_counter, task_id_counter, listener_handle,
                   worker_q, worker_cur, task_map, active_tasks, task_pc, task_q,
                   task_cur, task, result_q, listener_pc, shutdown_flag, results,
                   issued, sent, calls>>
    /\ UNCHANGED clock

\* active_tasks.fetch_add(1, Relaxed)
WorkerIncr ==
    /\ worker_pc = "incr"
    /\ active_tasks' = active_tasks + 1
    /\ worker_pc' = "spawn"
    /\ UNCHANGED <<program, server, request_counter, task_id_counter, listener_handle,
                   worker_q, worker_cur, task_map, task_pc, task_q, task_cur,
                   task, result_q, listener_pc, shutdown_flag, results, issued,
                   sent, calls>>
    /\ UNCHANGED clock

\* An admission that confirms the new task to the Listener.
WorkerSpawnAcks ==
    /\ worker_pc = "spawn"
    /\ task_pc' = [task_pc EXCEPT ![worker_cur.id] = "wait"]
    /\ task' = [task EXCEPT ![worker_cur.id] =
                   [query_map |-> worker_cur.query_map,
                    update_map |-> worker_cur.update_map]]
    /\ worker_cur' = NoReq
    /\ worker_pc' = "check"
    /\ result_q' = ResultSend(ReceivedRequest)
    /\ UNCHANGED <<program, server, request_counter, task_id_counter, listener_handle,
                   worker_q, task_map, active_tasks, task_q, task_cur,
                   listener_pc, shutdown_flag, results, issued, sent,
                   calls>>
    /\ clock' = RestartTask(worker_cur.id)

\* thread::spawn of the Task Unit, which owns the Task and task_rx.
WorkerSpawn ==
    /\ worker_pc = "spawn"
    /\ task_pc' = [task_pc EXCEPT ![worker_cur.id] = "wait"]
    /\ task' = [task EXCEPT ![worker_cur.id] =
                   [query_map |-> worker_cur.query_map,
                    update_map |-> worker_cur.update_map]]
    /\ worker_cur' = NoReq
    /\ worker_pc' = "check"
    /\ UNCHANGED <<program, server, request_counter, task_id_counter, listener_handle,
                   worker_q, task_map, active_tasks, task_q, task_cur,
                   result_q, listener_pc, shutdown_flag, results, issued, sent,
                   calls>>
    /\ clock' = RestartTask(worker_cur.id)

\* A forward that hands the instruction over only when the task is waiting
\* to receive it, as a zero-capacity channel would.
WorkerQueryRendezvous ==
    /\ worker_pc = "recv"
    /\ worker_q # <<>>
    /\ Head(worker_q).type = "QueryTask"
    /\ worker_q' = Tail(worker_q)
    /\ worker_pc' = "check"
    /\ LET msg == Head(worker_q) IN
         IF msg.id \in task_map
         THEN /\ task_pc[msg.id] = "exec" => FALSE
              /\ task_q' = TaskSend(msg.id, [type |-> "Query", req_id |-> msg.req_id,
                                             arg |-> msg.query_id])
              /\ UNCHANGED <<result_q, sent>>
         ELSE /\ result_q' = ResultSend(NotFound(msg.req_id, msg.id,
                                                 "Task not found for query"))
              /\ sent' = Record(NotFound(msg.req_id, msg.id,
                                         "Task not found for query"))
              /\ UNCHANGED task_q
    /\ UNCHANGED <<program, server, request_counter, task_id_counter, listener_handle,
                   worker_cur, task_map, active_tasks, task_pc, task_cur, task,
                   listener_pc, shutdown_flag, results, issued, calls>>
    /\ clock' = RestartWorker

\* QueryTask received: lookup and forward, or NotFound, under the registry lock.
WorkerQuery ==
    /\ worker_pc = "recv"
    /\ worker_q # <<>>
    /\ Head(worker_q).type = "QueryTask"
    /\ worker_q' = Tail(worker_q)
    /\ worker_pc' = "check"
    /\ LET msg == Head(worker_q) IN
         IF msg.id \in task_map
         THEN /\ task_q' = TaskSend(msg.id, [type |-> "Query", req_id |-> msg.req_id,
                                             arg |-> msg.query_id])
              /\ UNCHANGED <<result_q, sent>>
         ELSE /\ result_q' = ResultSend(NotFound(msg.req_id, msg.id,
                                                 "Task not found for query"))
              /\ sent' = Record(NotFound(msg.req_id, msg.id,
                                         "Task not found for query"))
              /\ UNCHANGED task_q
    /\ UNCHANGED <<program, server, request_counter, task_id_counter, listener_handle,
                   worker_cur, task_map, active_tasks, task_pc, task_cur, task,
                   listener_pc, shutdown_flag, results, issued, calls>>
    /\ clock' = RestartWorker

\* UpdateTask received: lookup and forward, or NotFound, under the registry lock.
WorkerUpdate ==
    /\ worker_pc = "recv"
    /\ worker_q # <<>>
    /\ Head(worker_q).type = "UpdateTask"
    /\ worker_q' = Tail(worker_q)
    /\ worker_pc' = "check"
    /\ LET msg == Head(worker_q) IN
         IF msg.id \in task_map
         THEN /\ task_q' = TaskSend(msg.id, [type |-> "Update", req_id |-> msg.req_id,
                                             arg |-> msg.update_id])
              /\ UNCHANGED <<result_q, sent>>
         ELSE /\ result_q' = ResultSend(NotFound(msg.req_id, msg.id,
                                                 "Task not found for update"))
              /\ sent' = Record(NotFound(msg.req_id, msg.id,
                                         "Task not found for update"))
              /\ UNCHANGED task_q
    /\ UNCHANGED <<program, server, request_counter, task_id_counter, listener_handle,
                   worker_cur, task_map, active_tasks, task_pc, task_cur, task,
                   listener_pc, shutdown_flag, results, issued, calls>>
    /\ clock' = RestartWorker

\* ------------------------------------------------------------ Task Unit

\* A receive that takes the newest queued instruction instead of the oldest.
TaskRecvLast(t) ==
    /\ task_pc[t] = "wait"
    /\ task_q[t] # <<>>
    /\ task_cur' = [task_cur EXCEPT ![t] = task_q[t][Len(task_q[t])]]
    /\ task_q' = [task_q EXCEPT ![t] = SubSeq(@, 1, Len(@) - 1)]
    /\ result_q' = ResultSend(ReceivedRequest)
    /\ task_pc' = [task_pc EXCEPT ![t] = "exec"]
    /\ UNCHANGED <<program, server, request_counter, task_id_counter, listener_handle,
                   worker_q, worker_pc, worker_cur, task_map, active_tasks,
                   task, listener_pc, shutdown_flag, results, issued, sent,
                   calls>>
    /\ clock' = RestartTask(t)

\* A receive that does not acknowledge the instruction.
TaskRecvSilent(t) ==
    /\ task_pc[t] = "wait"
    /\ task_q[t] # <<>>
    /\ task_cur' = [task_cur EXCEPT ![t] = Head(task_q[t])]
    /\ task_q' = [task_q EXCEPT ![t] = Tail(@)]
    /\ task_pc' = [task_pc EXCEPT ![t] = "exec"]
    /\ UNCHANGED <<program, server, request_counter, task_id_counter, listener_handle,
                   worker_q, worker_pc, worker_cur, task_map, active_tasks,
                   task, result_q, listener_pc, shutdown_flag, results, issued,
                   sent, calls>>
    /\ clock' = RestartTask(t)

\* recv_timeout returns Ok(msg): the instruction is acknowledged first.
TaskRecv(t) ==
    /\ task_pc[t] = "wait"
    /\ task_q[t] # <<>>
    /\ task_cur' = [task_cur EXCEPT ![t] = Head(task_q[t])]
    /\ task_q' = [task_q EXCEPT ![t] = Tail(@)]
    /\ result_q' = ResultSend(ReceivedRequest)
    /\ task_pc' = [task_pc EXCEPT ![t] = "exec"]
    /\ UNCHANGED <<program, server, request_counter, task_id_counter, listener_handle,
                   worker_q, worker_pc, worker_cur, task_map, active_tasks,
                   task, listener_pc, shutdown_flag, results, issued, sent,
                   calls>>
    /\ clock' = RestartTask(t)

\* self.task.query_map.get(&query_id)
QueryResult(t, ins) ==
    IF ins.arg \in DOMAIN task[t].query_map
    THEN QueryOk(ins.req_id, t, task[t].query_map[ins.arg])
    ELSE QueryError(ins.req_id, t, QueryMsg(ins.arg))

TaskQuery(t) ==
    /\ task_pc[t] = "exec"
    /\ task_cur[t].type = "Query"
    /\ result_q' = ResultSend(QueryResult(t, task_cur[t]))
    /\ sent' = Record(QueryResult(t, task_cur[t]))
    /\ task_cur' = [task_cur EXCEPT ![t] = NoReq]
    /\ task_pc' = [task_pc EXCEPT ![t] = "wait"]
    /\ UNCHANGED <<program, server, request_counter, task_id_counter, listener_handle,
                   worker_q, worker_pc, worker_cur, task_map, active_tasks,
                   task_q, task, listener_pc, shutdown_flag, results, issued,
                   calls>>
    /\ clock' = RestartTask(t)

\* An update that writes the operation's value into the queried state.
TaskUpdateWrites(t) ==
    /\ task_pc[t] = "exec"
    /\ task_cur[t].type = "Update"
    /\ LET ins == task_cur[t]
           hit == ins.arg \in DOMAIN task[t].update_map
           out == Invoke(task[t].update_map[ins.arg])
           res == IF hit THEN UpdateOk(ins.req_id, t, out.value)
                         ELSE UpdateError(ins.req_id, t, UpdateMsg(ins.arg))
       IN /\ result_q' = ResultSend(res)
          /\ sent' = Record(res)
          /\ task' = IF hit
                     THEN [task EXCEPT ![t].update_map[ins.arg] = out.next,
                                       ![t].query_map = [k \in DOMAIN @ |-> out.value]]
                     ELSE task
          /\ calls' = IF hit THEN [calls EXCEPT ![t] = @ + 1] ELSE calls
    /\ task_cur' = [task_cur EXCEPT ![t] = NoReq]
    /\ task_pc' = [task_pc EXCEPT ![t] = "wait"]
    /\ UNCHANGED <<program, server, request_counter, task_id_counter, listener_handle,
                   worker_q, worker_pc, worker_cur, task_map, active_tasks,
                   task_q, listener_pc, shutdown_flag, results, issued>>
    /\ clock' = RestartTask(t)

\* An update that invokes the operation once and answers later updates
\* from the first value.
TaskUpdateCached(t) ==
    /\ task_pc[t] = "exec"
    /\ task_cur[t].type = "Update"
    /\ LET ins == task_cur[t]
           hit == ins.arg \in DOMAIN task[t].update_map
           first == calls[t] = 0
           out == IF first THEN Invoke(task[t].update_map[ins.arg])
                           ELSE [value |-> Invoke(ToggleFn).value,
                                 next |-> task[t].update_map[ins.arg]]
           res == IF hit THEN UpdateOk(ins.req_id, t, out.value)
                         ELSE UpdateError(ins.req_id, t, UpdateMsg(ins.arg))
       IN /\ result_q' = ResultSend(res)
          /\ sent' = Record(res)
          /\ task' = IF hit
                     THEN [task EXCEPT ![t].update_map[ins.arg] = out.next]
                     ELSE task
          /\ calls' = IF hit /\ first THEN [calls EXCEPT ![t] = @ + 1] ELSE calls
    /\ task_cur' = [task_cur EXCEPT ![t] = NoReq]
    /\ task_pc' = [task_pc EXCEPT ![t] = "wait"]
    /\ UNCHANGED <<program, server, request_counter, task_id_counter, listener_handle,
                   worker_q, worker_pc, worker_cur, task_map, active_tasks,
                   task_q, listener_pc, shutdown_flag, results, issued>>
    /\ clock' = RestartTask(t)

\* self.task.update_map.get_mut(&update_id), and update_fn() on a hit.
TaskUpdate(t) ==
    /\ task_pc[t] = "exec"
    /\ task_cur[t].type = "Update"
    /\ LET ins == task_cur[t]
           hit == ins.arg \in DOMAIN task[t].update_map
           out == Invoke(task[t].update_map[ins.arg])
           res == IF hit THEN UpdateOk(ins.req_id, t, out.value)
                         ELSE UpdateError(ins.req_id, t, UpdateMsg(ins.arg))
       IN /\ result_q' = ResultSend(res)
          /\ sent' = Record(res)
          /\ task' = IF hit
                     THEN [task EXCEPT ![t].update_map[ins.arg] = out.next]
                     ELSE task
          /\ calls' = IF hit THEN [calls EXCEPT ![t] = @ + 1] ELSE calls
    /\ task_cur' = [task_cur EXCEPT ![t] = NoReq]
    /\ task_pc' = [task_pc EXCEPT ![t] = "wait"]
    /\ UNCHANGED <<program, server, request_counter, task_id_counter, listener_handle,
                   worker_q, worker_pc, worker_cur, task_map, active_tasks,
                   task_q, listener_pc, shutdown_flag, results, issued>>
    /\ clock' = RestartTask(t)

\* An expired wait after which the task waits again.
TaskTimeoutContinue(t) ==
    /\ task_pc[t] = "wait"
    /\ task_q[t] = <<>>
    /\ UNCHANGED vars

\* recv_timeout returns Err(Timeout): the loop ends, run returns and the
\* TaskThread (its Task and task_rx) is dropped.
TaskTimeout(t) ==
    /\ task_pc[t] = "wait"
    /\ task_q[t] = <<>>
    /\ task_pc' = [task_pc EXCEPT ![t] = "ended"]
    /\ task' = [task EXCEPT ![t] = NoTask]
    /\ UNCHANGED <<program, server, request_counter, task_id_counter, listener_handle,
                   worker_q, worker_pc, worker_cur, task_map, active_tasks,
                   task_q, task_cur, result_q, listener_pc, shutdown_flag,
                   results, issued, sent, calls>>
    /\ Expired(clock.task[t], TASK_TIMEOUT)
    /\ clock' = RestartTask(t)

\* A completion callback that leaves the registry entry behind.
TaskRemoveLeak(t) ==
    /\ task_pc[t] = "ended"
    /\ task_pc' = [task_pc EXCEPT ![t] = "removed"]
    /\ UNCHANGED <<program, server, request_counter, task_id_counter, listener_handle,
                   worker_q, worker_pc, worker_cur, task_map, active_tasks, task_q,
                   task_cur, task, result_q, listener_pc, shutdown_flag,
                   results, issued, sent, calls>>
    /\ UNCHANGED clock

\* A completion callback in the opposite order: the counter is decremented
\* first and the registry entry is removed afterwards.
TaskRemoveDecrFirst(t) ==
    /\ \/ /\ task_pc[t] = "ended"
          /\ active_tasks' = active_tasks - 1
          /\ task_pc' = [task_pc EXCEPT ![t] = "decremented"]
          /\ UNCHANGED task_map
       \/ /\ task_pc[t] = "decremented"
          /\ task_map' = task_map \ {t}
          /\ task_pc' = [task_pc EXCEPT ![t] = "finished"]
          /\ UNCHANGED active_tasks
    /\ UNCHANGED <<program, server, request_counter, task_id_counter, listener_handle,
                   worker_q, worker_pc, worker_cur, task_q,
                   task_cur, task, result_q, listener_pc, shutdown_flag,
                   results, issued, sent, calls>>
    /\ UNCHANGED clock

\* Completion callback: task_map_cloned.lock().unwrap().remove(&id)
TaskRemove(t) ==
    /\ task_pc[t] = "ended"
    /\ task_map' = task_map \ {t}
    /\ task_pc' = [task_pc EXCEPT ![t] = "removed"]
    /\ UNCHANGED <<program, server, request_counter, task_id_counter, listener_handle,
                   worker_q, worker_pc, worker_cur, active_tasks, task_q,
                   task_cur, task, result_q, listener_pc, shutdown_flag,
                   results, issued, sent, calls>>
    /\ UNCHANGED clock

\* A completion callback that never gives its unit back to the counter.
TaskDecrNone(t) ==
    /\ task_pc[t] = "removed"
    /\ task_pc' = [task_pc EXCEPT ![t] = "finished"]
    /\ UNCHANGED <<program, server, request_counter, task_id_counter, listener_handle,
                   worker_q, worker_pc, worker_cur, task_map, active_tasks, task_q,
                   task_cur, task, result_q, listener_pc, shutdown_flag, results,
                   issued, sent, calls>>
    /\ UNCHANGED clock

\* Completion callback: active_tasks_cloned.fetch_sub(1, Release)
TaskDecr(t) ==
    /\ task_pc[t] = "removed"
    /\ active_tasks' = active_tasks - 1
    /\ task_pc' = [task_pc EXCEPT ![t] = "finished"]
    /\ UNCHANGED <<program, server, request_counter, task_id_counter, listener_handle,
                   worker_q, worker_pc, worker_cur, task_map, task_q, task_cur,
                   task, result_q, listener_pc, shutdown_flag, results, issued,
                   sent, calls>>
    /\ UNCHANGED clock

\* ------------------------------------------------------------- Listener

\* A Listener that files a result under its task id.
StoreByTaskId(res) ==
    IF res.kind = "ReceivedRequest"
    THEN results
    ELSE [results EXCEPT ![res.id] = res]

\* Ok(result): every variant but ReceivedRequest is stored at its req_id.
Store(res) ==
    IF res.kind = "ReceivedRequest"
    THEN results
    ELSE [results EXCEPT ![res.req_id] = res]

ListenerRecv ==
    /\ listener_pc = "run"
    /\ result_q # <<>>
    /\ result_q' = Tail(result_q)
    /\ results' = Store(Head(result_q))
    /\ UNCHANGED <<program, server, request_counter, task_id_counter, listener_handle,
                   worker_q, worker_pc, worker_cur, task_map, active_tasks,
                   task_pc, task_q, task_cur, task, listener_pc,
                   shutdown_flag, issued, sent, calls>>
    /\ clock' = RestartListener

\* A Listener that ends on idle timeout without storing the flag.
ListenerTimeoutNoFlag ==
    /\ listener_pc = "run"
    /\ result_q = <<>>
    /\ listener_pc' = "done"
    /\ UNCHANGED <<program, server, request_counter, task_id_counter, listener_handle,
                   worker_q, worker_pc, worker_cur, task_map, active_tasks,
                   task_pc, task_q, task_cur, task, result_q, shutdown_flag,
                   results, issued, sent, calls>>
    /\ Expired(clock.listener, LISTENER_TIMEOUT)
    /\ clock' = RestartListener

\* Err(Timeout): the flag is set and the thread ends, dropping result_rx.
ListenerTimeout ==
    /\ listener_pc = "run"
    /\ result_q = <<>>
    /\ shutdown_flag' = TRUE
    /\ listener_pc' = "done"
    /\ UNCHANGED <<program, server, request_counter, task_id_counter, listener_handle,
                   worker_q, worker_pc, worker_cur, task_map, active_tasks,
                   task_pc, task_q, task_cur, task, result_q, results, issued,
                   sent, calls>>
    /\ Expired(clock.listener, LISTENER_TIMEOUT)
    /\ clock' = RestartListener

\* Err(Disconnected): every Sender<TaskResult> is gone.
ListenerDisconnected ==
    /\ listener_pc = "run"
    /\ result_q = <<>>
    /\ ~ResultSenders
    /\ shutdown_flag' = TRUE
    /\ listener_pc' = "done"
    /\ UNCHANGED <<program, server, request_counter, task_id_counter, listener_handle,
                   worker_q, worker_pc, worker_cur, task_map, active_tasks,
                   task_pc, task_q, task_cur, task, result_q, results, issued,
                   sent, calls>>
    /\ clock' = RestartListener

\* ----------------------------------------------------------------- Spec

Coordinator ==
    \/ /\ program # <<>>
       /\ Head(program).op = "create_task"
       /\ create_task(Head(program).inp)
    \/ /\ program # <<>>
       /\ Head(program).op = "query_task"
       /\ query_task(Head(program).id, Head(program).arg)
    \/ /\ program # <<>>
       /\ Head(program).op = "update_task"
       /\ update_task(Head(program).id, Head(program).arg)
    \/ join_listener
    \/ DropServer

Worker ==
    \/ WorkerCheck
    \/ WorkerTimeout
    \/ WorkerDisconnected
    \/ WorkerCreate
    \/ WorkerInsert
    \/ WorkerIncr
    \/ WorkerSpawn
    \/ WorkerQuery
    \/ WorkerUpdate

TaskUnit(t) ==
    \/ TaskRecv(t)
    \/ TaskQuery(t)
    \/ TaskUpdate(t)
    \/ TaskTimeout(t)
    \/ TaskRemove(t)
    \/ TaskDecr(t)

Listener ==
    \/ ListenerRecv
    \/ ListenerTimeout
    \/ ListenerDisconnected

Next ==
    \/ Coordinator
    \/ Worker
    \/ \E t \in TaskIds : TaskUnit(t)
    \/ Listener

Spec == Init /\ [][Next]_vars

\* One second passes for every thread that is waiting or executing.  Time
\* passes only while every thread waits on an empty channel, executes an
\* instruction or has ended: a message in a channel is received, and the
\* straight-line code between two waits is run, before the clock moves.  A
\* wait does not outlast its duration, an execution does not outlast
\* ExecMax, and a receive on the empty result channel fails at once when
\* every sender is gone.
Tick ==
    /\ clock.on
    /\ listener_pc = "run" =>
         /\ result_q = <<>>
         /\ ResultSenders
         /\ clock.listener < LISTENER_TIMEOUT
    /\ worker_pc \in {"recv", "done"}
    /\ worker_pc = "recv" =>
         /\ worker_q = <<>>
         /\ clock.worker < WORKER_TIMEOUT
    /\ \A t \in TaskIds :
         /\ task_pc[t] \notin {"ended", "removed"}
         /\ task_pc[t] = "wait" =>
              /\ task_q[t] = <<>>
              /\ clock.task[t] < TASK_TIMEOUT
         /\ task_pc[t] = "exec" => clock.task[t] < ExecMax
    /\ clock' = [on |-> TRUE,
                 listener |-> clock.listener + (IF listener_pc = "run" THEN 1 ELSE 0),
                 worker |-> clock.worker + (IF worker_pc = "recv" THEN 1 ELSE 0),
                 task |-> [t \in TaskIds |->
                             clock.task[t]
                               + (IF task_pc[t] \in {"wait", "exec"} THEN 1 ELSE 0)]]
    /\ clock' # clock
    /\ UNCHANGED <<program, server, request_counter, task_id_counter, listener_handle,
                   worker_q, worker_pc, worker_cur, task_map, active_tasks,
                   task_pc, task_q, task_cur, task, result_q, listener_pc,
                   shutdown_flag, results, issued, sent, calls>>

\* The state after ServerThread::new with every wait just begun.
TimedInit ==
    /\ program \in Programs
    /\ server = "alive"
    /\ request_counter = 0
    /\ task_id_counter = 0
    /\ listener_handle = TRUE
    /\ worker_q = <<>>
    /\ worker_pc = "check"
    /\ worker_cur = NoReq
    /\ task_map = {}
    /\ active_tasks = 0
    /\ task_pc = [t \in TaskIds |-> "none"]
    /\ task_q = [t \in TaskIds |-> <<>>]
    /\ task_cur = [t \in TaskIds |-> NoReq]
    /\ task = [t \in TaskIds |-> NoTask]
    /\ result_q = <<>>
    /\ listener_pc = "run"
    /\ shutdown_flag = FALSE
    /\ results = [r \in ReqIds |-> None]
    /\ issued = <<>>
    /\ sent = [r \in ReqIds |-> <<>>]
    /\ calls = [t \in TaskIds |-> 0]
    /\ clock = Started

TimedNext ==
    \/ Coordinator
    \/ Worker
    \/ \E t \in TaskIds : TaskUnit(t)
    \/ Listener
    \/ Tick

TimedSpec == TimedInit /\ [][TimedNext]_vars

\* Every thread the program starts keeps being scheduled: the Worker, the
\* Listener and each Task Unit take a step whenever one stays possible. An
\* expired recv_timeout is such a step. The Coordinator is the caller's
\* thread and owes no further call.
Fairness ==
    /\ WF_vars(Worker)
    /\ WF_vars(Listener)
    /\ \A t \in TaskIds : WF_vars(TaskUnit(t))

\* The wind-down of the system is followed on the runs that interleave
\* instructions with one task and with two.
FairInit == Init /\ program \in {Interactions, Nonexistent}

FairSpec == FairInit /\ [][Next]_vars /\ Fairness

\* --------------------------------------------------------- properties

\* The Task Units that were spawned and have not finished their completion callback.
Live == {t \in TaskIds : task_pc[t] \in {"wait", "exec", "ended", "removed"}}

\* This step is the Worker handling the request of the given type at the
\* head of its channel.
WorkerHandles(type) ==
    /\ worker_pc = "recv"
    /\ worker_q # <<>>
    /\ Head(worker_q).type = type
    /\ worker_pc' # "recv"

\* C1: the active-task counter and the number of Task Units that are
\* spawned and not yet through their completion callback never exceed
\* MAX_CONCURRENT_TASKS.
C1_Ceiling ==
    /\ active_tasks <= MAX_CONCURRENT_TASKS
    /\ Cardinality(Live) <= MAX_CONCURRENT_TASKS

\* The ceiling is reached while one more CreateTask is about to be handled.
C1_Witness ==
    /\ active_tasks = MAX_CONCURRENT_TASKS
    /\ Cardinality(Live) = MAX_CONCURRENT_TASKS
    /\ worker_pc = "recv"
    /\ worker_q # <<>>
    /\ Head(worker_q).type = "CreateTask"

\* C2: a CreateTask handled at or above the ceiling sends exactly one
\* Throttled{req_id, id} for that request and changes neither the registry,
\* nor the counter, nor any Task Unit, nor keeps the request anywhere.
C2_Throttle ==
    /\ [][(WorkerHandles("CreateTask") /\ active_tasks >= MAX_CONCURRENT_TASKS) =>
            LET msg == Head(worker_q) IN
              /\ sent[msg.req_id] = <<>>
              /\ sent' = [sent EXCEPT ![msg.req_id] = <<Throttled(msg.req_id, msg.id)>>]
              /\ worker_q' = Tail(worker_q)
              /\ worker_pc' = "check"
              /\ UNCHANGED <<task_map, active_tasks, task_pc, task_q, task_cur,
                             task, worker_cur>>]_vars
    /\ [](\A r \in ReqIds :
            (sent[r] # <<>> /\ sent[r][1].kind = "Throttled") => Len(sent[r]) = 1)

\* A creation was throttled while the registry held MAX_CONCURRENT_TASKS entries.
C2_Witness ==
    /\ Cardinality(task_map) = MAX_CONCURRENT_TASKS
    /\ \E r \in ReqIds : sent[r] # <<>> /\ sent[r][1].kind = "Throttled"

\* No Task Unit was ever spawned for id.
NeverCreated(id) == id \notin TaskIds \/ task_pc[id] = "none"

\* The Task Unit's receive wait has expired and its loop has ended.
TimedOut(id) == id \in TaskIds /\ task_pc[id] \in {"ended", "removed", "finished"}

\* The Task Unit's completion callback has removed its registry entry.
Unregistered(id) == id \in TaskIds /\ task_pc[id] \in {"removed", "finished"}

\* The Task Unit is in its loop: its inactivity wait has not expired.
Alive(id) == id \in TaskIds /\ task_pc[id] \in {"wait", "exec"}

Ctx(type) ==
    IF type = "QueryTask" THEN "Task not found for query"
                          ELSE "Task not found for update"

\* This step sends NotFound, naming the operation, for the request at the
\* head of the Worker's channel.
AnswersNotFound(type) ==
    LET msg == Head(worker_q) IN
      /\ sent[msg.req_id] = <<>>
      /\ sent' = [sent EXCEPT ![msg.req_id] = <<NotFound(msg.req_id, msg.id, Ctx(type))>>]

\* C3 as stated: every QueryTask or UpdateTask handled for an id that was
\* never created, or whose Task Unit has timed out, is answered NotFound.
C3_Original ==
    [][\A type \in {"QueryTask", "UpdateTask"} :
         (/\ WorkerHandles(type)
          /\ NeverCreated(Head(worker_q).id) \/ TimedOut(Head(worker_q).id))
         => AnswersNotFound(type)]_vars

\* C3, amended: every QueryTask or UpdateTask handled for an id that was
\* never created, or whose registry entry the completion callback has
\* removed, is answered NotFound with a ctx naming the operation; one
\* handled after the Task Unit's loop ended and before that removal is
\* forwarded to the closed channel and gets no response.
C3_NotFound ==
    [][\A type \in {"QueryTask", "UpdateTask"} :
         WorkerHandles(type) =>
           LET id == Head(worker_q).id IN
             /\ (NeverCreated(id) \/ Unregistered(id)) => AnswersNotFound(type)
             /\ (id \in TaskIds /\ task_pc[id] = "ended") =>
                    UNCHANGED <<sent, task_q, result_q>>]_vars

\* A request for a task whose callback has run was answered NotFound.
C3_Witness ==
    \E r \in ReqIds :
       /\ sent[r] # <<>>
       /\ sent[r][1].kind = "NotFound"
       /\ Unregistered(sent[r][1].id)

\* The instructions a Task Unit holds: queued, or being executed.
Pending(t) ==
    {task_q[t][i].req_id : i \in 1 .. Len(task_q[t])}
        \cup (IF task_cur[t] = NoReq THEN {} ELSE {task_cur[t].req_id})

Terminal(type) ==
    IF type = "Query" THEN {"QueryOk", "QueryError"}
                      ELSE {"UpdateOk", "UpdateError"}

Forwarded(msg) ==
    [type |-> IF msg.type = "QueryTask" THEN "Query" ELSE "Update",
     req_id |-> msg.req_id,
     arg |-> IF msg.type = "QueryTask" THEN msg.query_id ELSE msg.update_id]

\* C4: a CreateTask handled below the ceiling registers its task, and every
\* QueryTask/UpdateTask handled for the task before its inactivity wait
\* expires is forwarded to it, stays with it until it is executed, and is
\* answered by the task with QueryOk, QueryError, UpdateOk or UpdateError.
C4_Queryable ==
    /\ [](/\ worker_pc \in {"incr", "spawn"} => worker_cur.id \in task_map
          /\ \A t \in TaskIds :
               Alive(t) => /\ t \in task_map
                           /\ \A r \in Pending(t) : sent[r] = <<>>)
    /\ [][(WorkerHandles("CreateTask") /\ active_tasks < MAX_CONCURRENT_TASKS) =>
             /\ worker_pc' = "insert"
             /\ worker_cur' = Head(worker_q)
             /\ sent' = sent]_vars
    /\ [][\A type \in {"QueryTask", "UpdateTask"} :
            (WorkerHandles(type) /\ Alive(Head(worker_q).id)) =>
               LET msg == Head(worker_q) IN
                 /\ task_q' = [task_q EXCEPT ![msg.id] = Append(@, Forwarded(msg))]
                 /\ sent' = sent]_vars
    /\ [][\A t \in TaskIds :
            /\ (Alive(t) /\ ~Alive(t)') => Pending(t) = {}
            /\ (task_pc[t] = "exec" /\ task_pc'[t] # "exec") =>
                 LET ins == task_cur[t] IN
                   /\ Len(sent'[ins.req_id]) = 1
                   /\ sent'[ins.req_id][1].kind \in Terminal(ins.type)
                   /\ sent'[ins.req_id][1].id = t]_vars

\* A task answered a query and an update itself.
C4_Witness ==
    \E r1, r2 \in ReqIds :
       /\ sent[r1] # <<>> /\ sent[r1][1].kind = "QueryOk"
       /\ sent[r2] # <<>> /\ sent[r2][1].kind = "UpdateOk"
       /\ sent[r1][1].id = sent[r2][1].id

\* The API call that was assigned req_id r.
CallOf(r) == CHOOSE c \in {issued[i] : i \in 1 .. Len(issued)} : c.req_id = r

\* The maps task t was created from.
Given(t) ==
    (CHOOSE c \in {issued[i] : i \in 1 .. Len(issued)} :
        c.op = "create_task" /\ c.id = t).inp

\* The terminal results of the given kind sent on behalf of task t.
SentBy(t, kind) ==
    {r \in ReqIds : sent[r] # <<>> /\ sent[r][1].kind = kind /\ sent[r][1].id = t}

\* C5: a Query's terminal result is decided by the query map the task was
\* created from: QueryOk with the creation-time value if the key is in it,
\* QueryError otherwise, whatever queries and updates the task has processed.
C5_QueryFromCreation ==
    \A r \in ReqIds :
       (sent[r] # <<>> /\ sent[r][1].kind \in {"QueryOk", "QueryError"}) =>
          LET res == sent[r][1]
              c == CallOf(r)
              qm == Given(res.id).query_map
          IN /\ c.op = "query_task"
             /\ c.id = res.id
             /\ res = IF c.arg \in DOMAIN qm
                      THEN QueryOk(r, res.id, qm[c.arg])
                      ELSE QueryError(r, res.id, QueryMsg(c.arg))

\* Two identical queries were answered QueryOk after the task ran an update,
\* and a query for a missing key was answered QueryError.
C5_Witness ==
    \E t \in TaskIds :
       /\ \E r1, r2 \in SentBy(t, "QueryOk") :
             /\ r1 # r2
             /\ CallOf(r1).arg = CallOf(r2).arg
             /\ \E u \in SentBy(t, "UpdateOk") : u < r1
       /\ SentBy(t, "QueryError") # {}

\* C6: an Update whose name is in the task's update map invokes the bound
\* operation once and answers UpdateOk with the value that invocation
\* returned; one whose name is missing invokes nothing and answers
\* UpdateError.  So a task's invocations equal its UpdateOk results, and a
\* toggling operation answers "on", "off", "on", ... in request order.
C6_UpdateInvokesOnce ==
    /\ [](\A t \in TaskIds :
            /\ calls[t] = Cardinality(SentBy(t, "UpdateOk"))
            /\ \A r \in SentBy(t, "UpdateOk") :
                 Given(t) = Busy =>
                    sent[r][1].value =
                       IF Cardinality({u \in SentBy(t, "UpdateOk") : u < r}) % 2 = 0
                       THEN "on" ELSE "off")
    /\ [][\A t \in TaskIds :
            (task_pc[t] = "exec" /\ task_cur[t].type = "Update" /\ task_pc'[t] # "exec") =>
               LET ins == task_cur[t]
                   um == task[t].update_map
               IN IF ins.arg \in DOMAIN um
                  THEN /\ calls'[t] = calls[t] + 1
                       /\ sent'[ins.req_id] =
                             <<UpdateOk(ins.req_id, t, Invoke(um[ins.arg]).value)>>
                       /\ task'[t].update_map[ins.arg] = Invoke(um[ins.arg]).next
                  ELSE /\ calls' = calls
                       /\ task' = task
                       /\ sent'[ins.req_id] =
                             <<UpdateError(ins.req_id, t, UpdateMsg(ins.arg))>>]_vars

\* One task ran its operation for every repeated update and refused a
\* missing operation.
C6_Witness ==
    \E t \in TaskIds :
       /\ calls[t] = Repeat
       /\ Cardinality(SentBy(t, "UpdateOk")) = Repeat
       /\ SentBy(t, "UpdateError") # {}

\* C7: create_task, query_task and update_task return normally when the
\* Worker has exited and the request channel is closed; none of them
\* panics the caller.
C7_NoPanic == server # "panicked"

\* C8: a result-buffer slot that holds a result is never given another
\* value, since every request gets at most one terminal result.
C8_WriteOnce ==
    /\ [][\A r \in ReqIds : results[r] # None => results'[r] = results[r]]_vars
    /\ [](\A r \in ReqIds :
            /\ Len(sent[r]) <= 1
            /\ results[r] # None => sent[r] = <<results[r]>>)

\* The Listener has filled several slots and is still receiving.
C8_Witness ==
    /\ Cardinality({r \in ReqIds : results[r] # None}) >= 3
    /\ listener_pc = "run"
    /\ result_q # <<>>

\* C9: once the Listener has terminated the shutdown flag is set, and the
\* result buffer never changes again: a result sent afterwards is dropped.
C9_FinalAfterJoin ==
    /\ [](listener_pc = "done" => shutdown_flag)
    /\ [][listener_pc = "done" =>
            /\ listener_pc' = "done"
            /\ results' = results
            /\ result_q' = result_q]_vars

\* The caller has joined the Listener, and a result sent after the Listener
\* ended is in no slot.
C9_Witness ==
    /\ listener_pc = "done"
    /\ ~listener_handle
    /\ \E r \in ReqIds : sent[r] # <<>> /\ results[r] = None

\* C10: the Worker leaves its loop only with the shutdown flag set; only the
\* Listener's termination sets the flag and nothing clears it; a receive
\* timeout or a disconnected request channel does not end the Worker.
C10_WorkerExit ==
    /\ [](worker_pc = "done" => shutdown_flag)
    /\ [][/\ shutdown_flag => shutdown_flag'
          /\ shutdown_flag' # shutdown_flag =>
                (listener_pc = "run" /\ listener_pc' = "done")
          /\ worker_pc = "recv" => worker_pc' # "done"
          /\ (worker_pc # "done" /\ worker_pc' = "done") => shutdown_flag]_vars

\* The Worker has exited after the caller dropped the ServerThread.
C10_Witness ==
    /\ worker_pc = "done"
    /\ server = "dropped"
    /\ shutdown_flag

\* The req_ids task t has sent a terminal result for.
Answered(t) ==
    UNION {SentBy(t, kind) : kind \in {"QueryOk", "QueryError", "UpdateOk", "UpdateError"}}

\* The req_ids of a channel's messages grow from its head to its tail.
Ascending(q) == \A i, j \in 1 .. Len(q) : i < j => q[i].req_id < q[j].req_id

\* The terminal results task t has waiting in the result channel.
TaskResults(t) ==
    SelectSeq(result_q, LAMBDA res : res.kind \in Terminal("Query") \cup Terminal("Update")
                                     /\ res.id = t)

\* C11: the instructions forwarded to one task are processed one at a time
\* in the order the Worker forwarded them: the Worker takes requests oldest
\* first and appends each forwarded instruction behind those the task still
\* holds, the task takes the oldest instruction only when it has none in
\* hand, every instruction it has answered is older than every one still
\* pending, and its terminal results enter the result channel in that order.
C11_TaskOrder ==
    /\ [](/\ Ascending(worker_q)
          /\ \A t \in TaskIds :
               /\ Ascending(task_q[t])
               /\ Ascending(TaskResults(t))
               /\ \A p \in Pending(t) :
                    /\ \A a \in Answered(t) : a < p
                    /\ \A i \in 1 .. Len(worker_q) : p < worker_q[i].req_id
               /\ task_cur[t] # NoReq =>
                    \A i \in 1 .. Len(task_q[t]) : task_cur[t].req_id < task_q[t][i].req_id)
    /\ [][\A t \in TaskIds :
            /\ (task_pc[t] = "wait" /\ task_pc'[t] = "exec") =>
                 /\ task_cur[t] = NoReq
                 /\ task_cur'[t] = Head(task_q[t])
                 /\ task_q'[t] = Tail(task_q[t])
            /\ (task_pc[t] = "exec" /\ task_pc'[t] # "exec") =>
                 /\ Answered(t)' = Answered(t) \cup {task_cur[t].req_id}
                 /\ task_cur'[t] = NoReq
            /\ task_q'[t] # task_q[t] =>
                 \/ task_q[t] # <<>> /\ task_q'[t] = Tail(task_q[t])
                 \/ /\ WorkerHandles("QueryTask") \/ WorkerHandles("UpdateTask")
                    /\ Head(worker_q).id = t
                    /\ task_q'[t] = Append(task_q[t], Forwarded(Head(worker_q)))]_vars

\* One task has answered two instructions while results of two different
\* tasks wait in the result channel against the order of their requests.
C11_Witness ==
    /\ \E t \in TaskIds : Cardinality(Answered(t)) >= 2
    /\ \E i, j \in 1 .. Len(result_q) :
         /\ i < j
         /\ result_q[i].kind \in Terminal("Query") \cup Terminal("Update")
         /\ result_q[j].kind \in Terminal("Query") \cup Terminal("Update")
         /\ result_q[i].id # result_q[j].id
         /\ result_q[i].req_id > result_q[j].req_id

\* The Task Units between the removal of their registry entry and the
\* decrement of the counter.
Removing == {t \in TaskIds : task_pc[t] = "removed"}

\* C12: the counter equals the registry size, less one while the Worker is
\* between the registry insert and the increment, plus the number of Task
\* Units between their registry removal and their decrement.
C12_CounterTracksRegistry ==
    active_tasks = Cardinality(task_map)
                     - (IF worker_pc = "incr" THEN 1 ELSE 0)
                     + Cardinality(Removing)

\* Both transients at once: the Worker has inserted and not yet incremented
\* while a completion callback has removed and not yet decremented.
C12_Witness ==
    /\ worker_pc = "incr"
    /\ Removing # {}
    /\ active_tasks = Cardinality(task_map)

\* The Worker is about to run the admission check of a CreateTask.
AdmissionCheck ==
    /\ worker_pc = "recv"
    /\ worker_q # <<>>
    /\ Head(worker_q).type = "CreateTask"

\* C13: whenever the admission check reads the counter, the registry holds
\* no more entries than the value read, and the registry never holds more
\* than MAX_CONCURRENT_TASKS entries.
C13_RegistryBelowCounter ==
    /\ AdmissionCheck => Cardinality(task_map) <= active_tasks
    /\ Cardinality(task_map) <= MAX_CONCURRENT_TASKS

\* The admission check reads the ceiling while the registry already has room.
C13_Witness ==
    /\ AdmissionCheck
    /\ active_tasks = MAX_CONCURRENT_TASKS
    /\ Cardinality(task_map) < MAX_CONCURRENT_TASKS

\* C14: for every instruction it takes, a Task Unit sends ReceivedRequest,
\* then exactly one terminal result of the instruction's type carrying the
\* instruction's req_id and the task's own id; no other step of a Task Unit
\* sends a result, and no step of a Task Unit sends an instruction.
C14_AckThenResult ==
    /\ [][\A t \in TaskIds :
            /\ (task_pc[t] = "wait" /\ task_pc'[t] = "exec") =>
                 /\ result_q' = ResultSend(ReceivedRequest)
                 /\ sent' = sent
                 /\ sent[task_cur'[t].req_id] = <<>>
            /\ (task_pc[t] = "exec" /\ task_pc'[t] # "exec") =>
                 LET ins == task_cur[t]
                     res == sent'[ins.req_id][1]
                 IN /\ task_pc'[t] = "wait"
                    /\ res.kind \in Terminal(ins.type)
                    /\ res.req_id = ins.req_id
                    /\ res.id = t
                    /\ sent' = [sent EXCEPT ![ins.req_id] = <<res>>]
                    /\ result_q' = ResultSend(res)
            /\ (task_pc[t] # task_pc'[t] /\ task_pc[t] # "exec" /\ task_pc'[t] # "exec") =>
                 /\ result_q' = result_q
                 /\ sent' = sent
            /\ task_pc[t] # task_pc'[t] =>
                 \A u \in TaskIds : Len(task_q'[u]) <= Len(task_q[u])]_vars
    /\ [](\A r \in ReqIds :
            (sent[r] # <<>> /\ sent[r][1].kind \in Terminal("Query") \cup Terminal("Update"))
              => Len(sent[r]) = 1)

\* A task that has answered one instruction has acknowledged the next: the
\* acknowledgement is the newest message of the result channel.
C14_Witness ==
    \E t \in TaskIds :
       /\ task_pc[t] = "exec"
       /\ Answered(t) # {}
       /\ result_q # <<>>
       /\ result_q[Len(result_q)] = ReceivedRequest

\* C15: every non-empty slot of the result buffer holds a terminal result
\* whose req_id is the slot's index, never a ReceivedRequest, and receiving
\* a ReceivedRequest changes no slot.
C15_SlotHoldsItsRequest ==
    /\ [](\A i \in DOMAIN results :
            results[i] # None =>
              /\ results[i].kind \in {"QueryOk", "QueryError", "UpdateOk", "UpdateError",
                                      "NotFound", "Throttled"}
              /\ results[i].req_id = i)
    /\ [][(/\ listener_pc = "run"
           /\ result_q # <<>>
           /\ Head(result_q).kind = "ReceivedRequest"
           /\ result_q' = Tail(result_q)) => results' = results]_vars

\* The buffer holds a task's terminal result, whose acknowledgement the
\* Listener received before it, for a request whose id differs from the
\* task's.
C15_Witness ==
    \E i \in DOMAIN results :
       /\ results[i] # None
       /\ results[i].kind \in Terminal("Query") \cup Terminal("Update")
       /\ results[i].id # i

Quiescent ==
    /\ Live = {}
    /\ task_map = {}
    /\ active_tasks = 0

\* C16: a Task Unit that has been admitted ends its loop, then removes its
\* registry entry, then decrements the counter, in that order and each in
\* its own step; and the system comes to rest with no Task Unit left, an
\* empty registry and a counter of zero.
C16_TasksWindDown ==
    /\ [][\A t \in TaskIds :
            /\ task_pc[t] # task_pc'[t] =>
                 <<task_pc[t], task_pc'[t]>> \in
                     {<<"none", "wait">>, <<"wait", "exec">>, <<"exec", "wait">>,
                      <<"wait", "ended">>, <<"ended", "removed">>,
                      <<"removed", "finished">>}
            /\ (t \in task_map /\ t \notin task_map') =>
                 (task_pc[t] = "ended" /\ task_pc'[t] = "removed"
                    /\ active_tasks' = active_tasks)
            /\ (task_pc[t] = "removed" /\ task_pc'[t] = "finished") =>
                 (active_tasks' = active_tasks - 1 /\ task_map' = task_map)]_vars
    /\ (Live # {}) ~> Quiescent
    /\ <>[]Quiescent

\* Task Units were admitted and all of them have finished; the registry is
\* empty and the counter is back to zero.
C16_Witness ==
    /\ Quiescent
    /\ Cardinality({t \in TaskIds : task_pc[t] = "finished"}) >= 2

\* C17: the Listener eventually sets the shutdown flag and terminates, and
\* once it has, the Worker eventually sees the flag and leaves its loop:
\* the system does not stay with the Listener terminated and the Worker
\* running.
C17_ShutdownCompletes ==
    /\ <>(listener_pc = "done" /\ shutdown_flag)
    /\ (listener_pc = "done") ~> (worker_pc = "done")
    /\ <>[](listener_pc = "done" /\ shutdown_flag /\ worker_pc = "done")

\* The Listener has terminated and the Worker has left its loop while the
\* Coordinator still holds the server.
C17_Witness ==
    /\ listener_pc = "done"
    /\ shutdown_flag
    /\ worker_pc = "done"
    /\ server = "alive"

\* This step is the Listener ending because its wait on the result channel
\* lasted LISTENER_TIMEOUT while a sender still existed.
ListenerIdles ==
    /\ listener_pc = "run"
    /\ listener_pc' = "done"
    /\ result_q = <<>>
    /\ clock.listener = LISTENER_TIMEOUT
    /\ ResultSenders

\* C18: whenever the Listener terminates by idle timeout, no Task Unit is
\* still waiting for instructions or executing one.
C18_TasksExitFirst ==
    [][ListenerIdles => \A t \in TaskIds : ~Alive(t)]_vars

\* C19: when the Listener terminates by idle timeout, no instruction is
\* acknowledged and unanswered, and every terminal result sent is in the
\* result buffer: having received an instruction's acknowledgement, the
\* Listener does not give up before it has recorded the terminal result.
C19_AckedResultRecorded ==
    [][ListenerIdles =>
         /\ \A t \in TaskIds : task_pc[t] # "exec"
         /\ \A r \in ReqIds : sent[r] # <<>> => results[r] = sent[r][1]]_vars

\* The Listener has received an acknowledgement and has been waiting, for as
\* long as an execution may take, for the result of the instruction a task
\* is still executing.
C19_Witness ==
    \E t \in TaskIds :
       /\ task_pc[t] = "exec"
       /\ clock.task[t] = ExecMax
       /\ listener_pc = "run"
       /\ result_q = <<>>
       /\ clock.listener = ExecMax

\* recv_timeout on task t's instruction channel would return
\* Err(Disconnected): the channel is empty and its sender, held by the
\* registry entry, is gone.
Disconnected(t) == task_q[t] = <<>> /\ t \notin task_map

\* C21: a Task Unit in its loop always has its sender in the registry, so
\* its receive never finds the channel disconnected and its loop ends only
\* by the inactivity timeout; a registry entry is inserted only for an id
\* that has no entry and no Task Unit yet, and is removed only by the
\* completion callback of its own task after that task's loop has ended.
C21_LoopEndsByTimeout ==
    /\ [](\A t \in TaskIds : Alive(t) => ~Disconnected(t))
    /\ [][\A t \in TaskIds :
            /\ (Alive(t) /\ ~Alive(t)') =>
                 /\ task_pc[t] = "wait"
                 /\ task_pc'[t] = "ended"
                 /\ task_q[t] = <<>>
                 /\ t \in task_map
            /\ (t \in task_map /\ t \notin task_map') =>
                 /\ task_pc[t] = "ended"
                 /\ task_pc'[t] = "removed"
                 /\ task_map' = task_map \ {t}
            /\ (worker_pc = "insert" /\ worker_pc' # "insert" /\ worker_cur.id = t) =>
                 /\ t \notin task_map
                 /\ task_pc[t] = "none"
                 /\ task_map' = task_map \cup {t}]_vars

\* One task's loop has ended by timeout with its entry still registered,
\* while another task is in its loop and registered.
C21_Witness ==
    \E t, u \in TaskIds :
       /\ task_pc[t] = "ended"
       /\ t \in task_map
       /\ Alive(u)
       /\ u \in task_map

\* The creation of task id has passed the admission check.
Admitted(id) ==
    \/ task_pc[id] # "none"
    \/ id \in task_map
    \/ worker_cur # NoReq /\ worker_cur.id = id

\* This step belongs to the admission of a CreateTask below the ceiling.
AdmissionStep ==
    \/ worker_pc = "recv" /\ worker_pc' = "insert"
    \/ worker_pc \in {"insert", "incr", "spawn"} /\ worker_pc' # worker_pc

\* C22: no step of an admission sends on the result channel, fills a slot
\* or restarts the Listener's wait; the slot of an admitted creation's
\* req_id stays empty, and the only result ever sent or stored for a
\* create_task call is the Throttled of that call.
C22_AdmissionIsSilent ==
    /\ [][AdmissionStep =>
            /\ result_q' = result_q
            /\ sent' = sent
            /\ results' = results
            /\ clock'.listener = clock.listener]_vars
    /\ [](\A i \in 1 .. Len(issued) :
            issued[i].op = "create_task" =>
              LET r == issued[i].req_id
                  id == issued[i].id
              IN /\ sent[r] \in {<<>>, <<Throttled(r, id)>>}
                 /\ results[r] \in {None, Throttled(r, id)}
                 /\ Admitted(id) => (sent[r] = <<>> /\ results[r] = None))

\* A task was admitted late in the Listener's wait: its slot is empty, it
\* has just begun to wait, and the Listener's wait has run its full length.
C22_Witness ==
    \E i \in 1 .. Len(issued) :
       /\ issued[i].op = "create_task"
       /\ task_pc[issued[i].id] = "wait"
       /\ clock.task[issued[i].id] < TASK_TIMEOUT
       /\ results[issued[i].req_id] = None
       /\ listener_pc = "run"
       /\ clock.listener = LISTENER_TIMEOUT

\* C23: the counter never goes below zero: it counts exactly the tasks the
\* Worker has incremented it for and whose callback has not yet decremented
\* it, every decrement finds it at one or more, and a task whose callback
\* has decremented takes no further step.
C23_NoUnderflow ==
    /\ [](/\ active_tasks >= 0
          /\ active_tasks = Cardinality(Live) + (IF worker_pc = "spawn" THEN 1 ELSE 0))
    /\ [][\A t \in TaskIds :
            /\ (task_pc[t] = "removed" /\ task_pc'[t] # "removed") =>
                 /\ active_tasks >= 1
                 /\ active_tasks' = active_tasks - 1
                 /\ task_pc'[t] = "finished"
            /\ task_pc[t] = "finished" => task_pc'[t] = "finished"
            /\ active_tasks' < active_tasks =>
                 \E u \in TaskIds : task_pc[u] = "removed" /\ task_pc'[u] = "finished"]_vars

\* The last unit of the counter is about to be given back: one callback has
\* already decremented and another is between its removal and its decrement.
C23_Witness ==
    /\ active_tasks = 1
    /\ \E t, u \in TaskIds : task_pc[t] = "finished" /\ task_pc[u] = "removed"

\* The create_task calls among the first n calls made.
Creations(n) == {i \in 1 .. n : issued[i].op = "create_task"}

\* C24: the k-th call, counting from 0, has req_id k and the j-th
\* create_task has task id j, whether or not the Worker still receives and
\* whether or not the creation is throttled; the two counters stand at the
\* numbers of calls made, and the id of a throttled creation is never
\* registered or given a Task Unit.
C24_IdsFollowCalls ==
    /\ [](/\ request_counter = Len(issued)
          /\ task_id_counter = Cardinality(Creations(Len(issued)))
          /\ \A i \in 1 .. Len(issued) :
               /\ issued[i].req_id = i - 1
               /\ issued[i].op = "create_task" =>
                    /\ issued[i].id = Cardinality(Creations(i - 1))
                    /\ sent[issued[i].req_id] # <<>> =>
                         /\ issued[i].id \notin task_map
                         /\ task_pc[issued[i].id] = "none")
    /\ [][Len(issued') # Len(issued) =>
            /\ issued' = Append(issued, issued'[Len(issued')])
            /\ issued'[Len(issued')].req_id = request_counter
            /\ request_counter' = request_counter + 1
            /\ task_id_counter' = task_id_counter
                 + (IF issued'[Len(issued')].op = "create_task" THEN 1 ELSE 0)]_vars

\* After a throttled creation took a task id, a later call was made that the
\* Worker, which has left its loop, never received; both were numbered.
C24_Witness ==
    /\ worker_pc = "done"
    /\ \E i, j \in 1 .. Len(issued) :
         /\ i < j
         /\ issued[i].op = "create_task"
         /\ sent[issued[i].req_id] = <<Throttled(issued[i].req_id, issued[i].id)>>
         /\ issued[i].id = MAX_CONCURRENT_TASKS
         /\ issued[j].op = "query_task"
         /\ sent[issued[j].req_id] = <<>>

====
